---- MODULE Spec2Model ----
(***************************************************************************)
(* Pump / monitor controller of the bonsai watering hub                    *)
(* (src/plugins/bonsai_plugin.py, class BonsaiPlugin).                     *)
(*                                                                         *)
(* Threads: the request handlers of the manual toggle and of the config    *)
(* route, the monitor loop, one worker thread per accepted start_pump      *)
(* call, and the thread that runs shutdown().                              *)
(*                                                                         *)
(* Time: `now` is time.time(), counted in poll intervals of the run loop   *)
(* (time.sleep(0.1)); one second is PollsPerSecond poll intervals.  Every  *)
(* statement other than a sleep takes no time: Tick is enabled only when   *)
(* every thread is asleep or absent.  Between two ticks every interleaving *)
(* of the threads' steps is explored.                                      *)
(***************************************************************************)
EXTENDS Integers, Sequences, FiniteSets, TLC

VARIABLES
    gpio_ready,            \* self.gpio_ready
    gpio_released,         \* GPIO.cleanup() has run
    relay,                 \* level last written to RELAY_PIN (None: never written)
    config,                \* self.config
    config_file,           \* the file bonsai_config.json
    lock,                  \* self.lock: the thread holding it (0: free)
    ctor,                  \* position of __init__ in its load and save
    outcome,               \* what the last call on the configuration store
                           \* or on the event log's read side returned or
                           \* raised to its caller
    sensor,                \* self.sensor: the cached handle (None: no handle)
    current_moisture,      \* self.current_moisture
    last_water_time,       \* self.last_water_time
    manual_toggle_on,      \* self.manual_toggle_on
    pump,                  \* self.pump (PumpState)
    shutdown_flag,         \* self._shutdown
    pump_stop_requested,   \* self._pump_stop_requested
    now,                   \* time.time()
    workers,               \* the _pump_worker threads and their locals
    handlers,              \* the manual_toggle request handlers
    monitor,               \* the monitor_loop thread and its locals
    sd,                    \* the thread running shutdown()
    moisture_readings,     \* table moisture_readings
    watering_events,       \* table watering_events
    calls,                 \* events of the environment so far: API requests,
                           \* changes of the sensor's answer, the shutdown
    soil,                  \* what the sensor answers now
    hist                   \* observation only: never read by an action's guard

vars == <<gpio_ready, gpio_released, relay, config, config_file, lock, ctor,
          outcome, sensor, current_moisture,
          last_water_time, manual_toggle_on, pump, shutdown_flag,
          pump_stop_requested, now, workers, handlers, monitor, sd,
          moisture_readings, watering_events, calls, soil, hist>>

\* Everything but the observation variable.
prog == <<gpio_ready, gpio_released, relay, config, config_file, lock, ctor,
          outcome, sensor, current_moisture,
          last_water_time, manual_toggle_on, pump, shutdown_flag,
          pump_stop_requested, now, workers, handlers, monitor, sd,
          moisture_readings, watering_events, calls, soil>>

----------------------------------------------------------------------------
(* Bounds of the model *)

PollsPerSecond == 1        \* poll intervals per second (the code: 10)
MaxIntervalSeconds == 1    \* largest min_water_interval_seconds explored
Horizon == 3               \* ticks explored after process start
MaxWorkers == 2            \* worker threads alive at the same time
MaxHandlers == 1           \* manual_toggle requests in flight at the same time
MaxEnvEvents == 2          \* API requests, sensor changes and shutdown in one behaviour
MaxSeconds == 3            \* largest duration or cap given to the clamp

(* Program constants *)

PUMP_ON_LEVEL == 0
PUMP_OFF_LEVEL == 1
None == -1
ShutdownWaitPolls == 2     \* time.sleep(0.2) in shutdown(), in poll intervals
MinSleepSeconds == 1       \* floor of the monitor's sleep (the code: 30)

BootTime == MaxIntervalSeconds * PollsPerSecond + 1
Moistures == {30, 50}
Modes == {"manual", "auto"}
WorkerIds == 1..MaxWorkers
HandlerIds == 1..MaxHandlers

Max(a, b) == IF a >= b THEN a ELSE b
Min(a, b) == IF a <= b THEN a ELSE b

\* The configuration as loaded at construction: the defaults overlaid with a
\* persisted file.  Durations are small so that whole runs fit in the horizon.
LoadedConfig ==
    [ moisture_threshold_low       |-> 35,
      moisture_threshold_high      |-> 65,
      watering_duration_seconds    |-> 1,
      min_water_interval_seconds   |-> MaxIntervalSeconds,
      sensor_read_interval_seconds |-> 1,
      pump_max_runtime_seconds     |-> 2,
      manual_max_runtime_seconds   |-> 2,
      auto_watering_enabled        |-> TRUE,
      oled_enabled                 |-> TRUE ]

\* Keys the config route accepts.
allowed ==
    { "moisture_threshold_low", "moisture_threshold_high",
      "watering_duration_seconds", "min_water_interval_seconds",
      "sensor_read_interval_seconds", "pump_max_runtime_seconds",
      "manual_max_runtime_seconds", "auto_watering_enabled" }

\* Request bodies posted to the config route in this model.
ConfigPayloads ==
    { [manual_max_runtime_seconds |-> -1],
      [min_water_interval_seconds |-> 0, pump_max_runtime_seconds |-> 1,
       oled_enabled |-> FALSE, ha_enabled |-> TRUE],
      [auto_watering_enabled |-> FALSE] }

PumpState == [running |-> FALSE, mode |-> "idle", started_at |-> 0,
              ends_at |-> 0, stop_reason |-> ""]

NoWorker == [pc |-> "none", mode |-> "idle", requested_seconds |-> 0,
             moisture_before |-> None, max_allowed |-> 0, run_seconds |-> 0,
             started |-> 0, stop_reason |-> ""]

\* Observation of one run: the stop_pump calls made while it was in progress
\* (counted up to two), the time of the first such call made before the run's
\* deadline (0: none), whether the stop signal was already raised when
\* start_pump accepted the run, whether the run's teardown has written the
\* off level to the relay pin, the cap of the run's mode in the
\* configuration its caller took the requested duration from, and whether
\* the run's loop ended at its test of the shutdown flag, whether the
\* manual-toggle route was called with enabled = false while the run was in
\* progress and before its deadline, and whether the shutdown flag was set
\* when start_pump accepted the run.
NoHist == [stops |-> 0, early_at |-> 0, stale |-> FALSE, off |-> FALSE,
           cap |-> 0, by_flag |-> FALSE, by_toggle |-> FALSE,
           after_flag |-> FALSE]

IdleHandler == [pc |-> "idle", seconds |-> 0, message |-> ""]

\* The monitor thread between two cycles: its locals are dead.
RestingMonitor(pc, left) ==
    [pc |-> pc, cfg |-> LoadedConfig, moisture |-> None, m |-> None,
     status |-> "WAIT", left |-> left]

----------------------------------------------------------------------------
(* Helpers *)

Live == {w \in WorkerIds : workers[w].pc # "none"}
FreeIds == WorkerIds \ Live
FreeId == CHOOSE w \in FreeIds : \A v \in FreeIds : w <= v

\* Bound of the model: a start_pump call that would launch one thread more
\* than MaxWorkers is not explored.
Launchable == FreeIds # {}

\* The deadline test two poll intervals late.
Deadline_Late(w) == workers[w].started + workers[w].run_seconds * PollsPerSecond + 2

Deadline(w) == workers[w].started + workers[w].run_seconds * PollsPerSecond

----------------------------------------------------------------------------
(* Sensor gateway *)

\* _read_moisture: the percentage the sensor answers, or None.
ReadMoisture == soil

\* _get_sensor: the cached handle when there is one, else a fresh handle,
\* named by the time it is opened, and none when the bus does not answer.
GetSensor ==
    IF sensor # None THEN sensor
    ELSE IF soil # None THEN now ELSE None

\* _read_moisture keeping the handle whatever the read did.
SensorAfterRead_KeepsHandle == GetSensor

\* self.sensor after _read_moisture: a failed read discards the handle
\* (line 263), a read that succeeds keeps the one _get_sensor returned.
SensorAfterRead ==
    IF GetSensor = None \/ soil = None THEN None ELSE GetSensor

\* Between two polls the soil may dry or be watered, the sensor may drop off
\* the bus or come back: what the next read can answer.
SensorAfter ==
    IF calls < MaxEnvEvents THEN Moistures \cup {None} ELSE {soil}

----------------------------------------------------------------------------
(* Actuator gateway *)

\* _set_pump_output: a no-op when the GPIO never came up; GPIO.output raises
\* once GPIO.cleanup() has released the pin.
SetPumpOutputRaises == gpio_ready /\ gpio_released

\* _set_pump_output with the two levels swapped.
SetPumpOutput_Inverted(on) ==
    IF ~gpio_ready THEN relay
    ELSE IF on THEN PUMP_OFF_LEVEL ELSE PUMP_ON_LEVEL

\* _set_pump_output writing the on level whatever it is asked.
SetPumpOutput_StuckOn(on) ==
    IF ~gpio_ready THEN relay ELSE PUMP_ON_LEVEL

SetPumpOutput(on) ==
    IF ~gpio_ready THEN relay
    ELSE IF on THEN PUMP_ON_LEVEL ELSE PUMP_OFF_LEVEL

\* Observation: which worker took the relay from off to on, and when; and
\* (accepted) how many start_pump calls have been accepted so far.
NoteRelay(w, level) ==
    IF level = PUMP_ON_LEVEL /\ relay # PUMP_ON_LEVEL
    THEN [hist EXCEPT !.relay_by = w, !.relay_since = now]
    ELSE IF level # PUMP_ON_LEVEL
    THEN [hist EXCEPT !.relay_by = 0, !.relay_since = 0]
    ELSE hist

\* Observation: the thread of run w has ended.
EndHist(h, w) == [h EXCEPT !.run[w] = NoHist]

----------------------------------------------------------------------------
(* start_pump / stop_pump *)

\* start_pump without the test of gpio_ready.
StartPumpResult_NoGpioCheck ==
    IF pump.running THEN "Pump already running" ELSE "Pump started"

StartPumpResult ==
    IF ~gpio_ready THEN "GPIO not ready; pump control unavailable."
    ELSE IF pump.running THEN "Pump already running"
    ELSE "Pump started"

\* start_pump passing the sensor's answer of the moment, not the cache.
Spawn_ReadsSensor(mode, seconds) ==
    [workers EXCEPT ![FreeId] =
        [NoWorker EXCEPT !.pc = "w_cfg", !.mode = mode,
                         !.requested_seconds = seconds,
                         !.moisture_before = ReadMoisture]]

\* The thread start_pump launches, with the arguments bound at the call.
Spawn(mode, seconds) ==
    [workers EXCEPT ![FreeId] =
        [NoWorker EXCEPT !.pc = "w_cfg", !.mode = mode,
                         !.requested_seconds = seconds,
                         !.moisture_before = current_moisture]]

SpawnHist(cap) ==
    [hist EXCEPT !.run[FreeId] = [NoHist EXCEPT !.stale = pump_stop_requested,
                                                !.cap = cap,
                                                !.after_flag = shutdown_flag],
                 !.accepted = @ + 1]

\* stop_pump flipping the event instead of setting it.
StopPump_Toggle(requested) == ~requested

\* stop_pump: self._pump_stop_requested.set(); the value of the event after it.
StopPump(requested) == TRUE

\* Observation: the runs that were in progress when stop_pump was called.
StopHist ==
    [hist EXCEPT !.run =
        [w \in WorkerIds |->
            IF workers[w].pc \in {"w_cfg", "w_mark", "w_on", "loop", "body", "sleep"}
            THEN [stops |-> Min(2, hist.run[w].stops + 1),
                  early_at |->
                      IF /\ hist.run[w].early_at = 0
                         /\ \/ workers[w].pc \in {"w_cfg", "w_mark", "w_on"}
                            \/ now < Deadline(w)
                      THEN now ELSE hist.run[w].early_at,
                  stale |-> hist.run[w].stale,
                  off |-> hist.run[w].off,
                  cap |-> hist.run[w].cap,
                  by_flag |-> hist.run[w].by_flag,
                  by_toggle |-> hist.run[w].by_toggle,
                  after_flag |-> hist.run[w].after_flag]
            ELSE hist.run[w]]]

\* Observation: the runs the manual-toggle route asked to stop before their
\* deadline.
ToggleOffHist ==
    [StopHist EXCEPT !.run =
        [w \in WorkerIds |->
            IF /\ workers[w].pc \in {"w_cfg", "w_mark", "w_on", "loop", "body", "sleep"}
               /\ \/ workers[w].pc \in {"w_cfg", "w_mark", "w_on"}
                  \/ now < Deadline(w)
            THEN [StopHist.run[w] EXCEPT !.by_toggle = TRUE]
            ELSE StopHist.run[w]]]

----------------------------------------------------------------------------
(* _pump_worker *)

MaxAllowed(mode, cfg) ==
    IF mode = "manual" THEN cfg.manual_max_runtime_seconds
    ELSE cfg.pump_max_runtime_seconds

\* The clamp without its cap.
RunSeconds_NoCap(requested_seconds, max_allowed) ==
    Max(1, requested_seconds)

RunSeconds(requested_seconds, max_allowed) ==
    Max(1, Min(requested_seconds, max_allowed))

DeadlineReason(mode) ==
    IF mode = "manual" THEN "safety_timeout" ELSE "completed"

\* lines 317-320
WorkerConfig(w) ==
    /\ workers[w].pc = "w_cfg"
    /\ LET cap == MaxAllowed(workers[w].mode, config) IN
       workers' = [workers EXCEPT ![w].pc = "w_mark",
                                  ![w].max_allowed = cap,
                                  ![w].run_seconds =
                                      RunSeconds(workers[w].requested_seconds, cap)]
    /\ UNCHANGED <<config_file, lock, ctor, outcome, sensor,
                   gpio_ready, gpio_released, relay, config, current_moisture,
                   last_water_time, manual_toggle_on, pump, shutdown_flag,
                   pump_stop_requested, now, handlers, monitor, sd,
                   moisture_readings, watering_events, calls, hist, soil>>

\* The mark leaving the last run's stop_reason in the record.
MarkedPump_KeepsReason(w) ==
    [running |-> TRUE, mode |-> workers[w].mode, started_at |-> now,
     ends_at |-> now + workers[w].run_seconds * PollsPerSecond,
     stop_reason |-> pump.stop_reason]

\* lines 323-327: the five fields of self.pump as the worker marks its run
MarkedPump(w) ==
    [running |-> TRUE, mode |-> workers[w].mode, started_at |-> now,
     ends_at |-> now + workers[w].run_seconds * PollsPerSecond,
     stop_reason |-> ""]

\* lines 322-327
WorkerMark(w) ==
    /\ workers[w].pc = "w_mark"
    /\ pump' = MarkedPump(w)
    /\ workers' = [workers EXCEPT ![w].pc = "w_on"]
    /\ UNCHANGED <<config_file, lock, ctor, outcome, sensor,
                   gpio_ready, gpio_released, relay, config, current_moisture,
                   last_water_time, manual_toggle_on, shutdown_flag,
                   pump_stop_requested, now, handlers, monitor, sd,
                   moisture_readings, watering_events, calls, hist, soil>>

\* The worker's stop_reason starting empty, as pump.stop_reason does.
InitialStopReason_Empty == ""

\* line 333: stop_reason = "completed"
InitialStopReason == "completed"

\* lines 329-333; an exception of GPIO.output ends the thread here
WorkerOn(w) ==
    /\ workers[w].pc = "w_on"
    /\ IF SetPumpOutputRaises
       THEN /\ workers' = [workers EXCEPT ![w] = NoWorker]
            /\ hist' = EndHist(hist, w)
            /\ UNCHANGED relay
       ELSE /\ relay' = SetPumpOutput(TRUE)
            /\ hist' = NoteRelay(w, SetPumpOutput(TRUE))
            /\ workers' = [workers EXCEPT ![w].pc = "loop",
                                          ![w].started = now,
                                          ![w].stop_reason = InitialStopReason]
    /\ UNCHANGED <<config_file, lock, ctor, outcome, sensor,
                   gpio_ready, gpio_released, config, current_moisture,
                   last_water_time, manual_toggle_on, pump, shutdown_flag,
                   pump_stop_requested, now, handlers, monitor, sd,
                   moisture_readings, watering_events, calls, soil>>

\* line 336: while not self._shutdown.is_set()
WorkerLoop(w) ==
    /\ workers[w].pc = "loop"
    /\ workers' = [workers EXCEPT ![w].pc =
                      IF shutdown_flag THEN "t_off" ELSE "body"]
    /\ hist' = [hist EXCEPT !.run[w].by_flag = shutdown_flag]
    /\ UNCHANGED <<config_file, lock, ctor, outcome, sensor,
                   gpio_ready, gpio_released, relay, config, current_moisture,
                   last_water_time, manual_toggle_on, pump, shutdown_flag,
                   pump_stop_requested, now, handlers, monitor, sd,
                   moisture_readings, watering_events, calls, soil>>

\* The two tests of the loop body in the other order.
LoopExit_DeadlineFirst(requested, expired, mode) ==
    IF expired THEN DeadlineReason(mode)
    ELSE IF requested THEN "manual_stop"
    ELSE ""

\* lines 337-342: the reason the loop body breaks with ("": it does not
\* break), the stop signal tested first and the deadline second
LoopExit(requested, expired, mode) ==
    IF requested THEN "manual_stop"
    ELSE IF expired THEN DeadlineReason(mode)
    ELSE ""

\* lines 337-343: break with the reason, else sleep
WorkerBody(w) ==
    /\ workers[w].pc = "body"
    /\ LET reason == LoopExit(pump_stop_requested, now >= Deadline(w),
                              workers[w].mode) IN
          workers' =
              IF reason # ""
              THEN [workers EXCEPT ![w].pc = "t_off", ![w].stop_reason = reason]
              ELSE [workers EXCEPT ![w].pc = "sleep"]
    /\ UNCHANGED <<config_file, lock, ctor, outcome, sensor,
                   gpio_ready, gpio_released, relay, config, current_moisture,
                   last_water_time, manual_toggle_on, pump, shutdown_flag,
                   pump_stop_requested, now, handlers, monitor, sd,
                   moisture_readings, watering_events, calls, hist, soil>>

\* line 345; an exception of GPIO.output leaves the finally block
WorkerOff(w) ==
    /\ workers[w].pc = "t_off"
    /\ IF SetPumpOutputRaises
       THEN /\ workers' = [workers EXCEPT ![w] = NoWorker]
            /\ hist' = EndHist(hist, w)
            /\ UNCHANGED relay
       ELSE /\ relay' = SetPumpOutput(FALSE)
            /\ hist' = [NoteRelay(w, SetPumpOutput(FALSE)) EXCEPT
                           !.run[w].off = (SetPumpOutput(FALSE) = PUMP_OFF_LEVEL)]
            /\ workers' = [workers EXCEPT ![w].pc = "t_log"]
    /\ UNCHANGED <<config_file, lock, ctor, outcome, sensor,
                   gpio_ready, gpio_released, config, current_moisture,
                   last_water_time, manual_toggle_on, pump, shutdown_flag,
                   pump_stop_requested, now, handlers, monitor, sd,
                   moisture_readings, watering_events, calls, soil>>

\* _log_watering replacing the table's rows by the new one.
LogWatering_Rewrites(events, event) == <<event>>

\* _log_watering losing the row.
LogWatering_Dropped(events, event) == events

\* _log_watering: one INSERT into watering_events
LogWatering(events, event) == Append(events, event)

\* lines 346-348: elapsed, the moisture-after read, _log_watering
WorkerLog(w) ==
    /\ workers[w].pc = "t_log"
    /\ LET moisture_after == ReadMoisture IN
          watering_events' = LogWatering(watering_events,
              [duration_seconds |-> now - workers[w].started,
               moisture_before  |-> workers[w].moisture_before,
               moisture_after   |-> moisture_after,
               mode             |-> workers[w].mode,
               stop_reason      |-> workers[w].stop_reason])
    /\ sensor' = SensorAfterRead
    /\ workers' = [workers EXCEPT ![w].pc = "t_reset"]
    /\ UNCHANGED <<config_file, lock, ctor, outcome,
                   gpio_ready, gpio_released, relay, config, current_moisture,
                   last_water_time, manual_toggle_on, pump, shutdown_flag,
                   pump_stop_requested, now, handlers, monitor, sd,
                   moisture_readings, calls, hist, soil>>

\* The reset moving the throttle's timer for automatic runs only.
LastWaterTime_AutoOnly(w) ==
    IF workers[w].mode = "auto" THEN now ELSE last_water_time

\* line 352: self.last_water_time = time.time(), whatever the run's mode
LastWaterTime(w) == now

\* lines 350-359
WorkerReset(w) ==
    /\ workers[w].pc = "t_reset"
    /\ last_water_time' = LastWaterTime(w)
    /\ pump' = [PumpState EXCEPT !.stop_reason = workers[w].stop_reason]
    /\ manual_toggle_on' = FALSE
    /\ pump_stop_requested' = FALSE
    /\ workers' = [workers EXCEPT ![w] = NoWorker]
    /\ hist' = EndHist(hist, w)
    /\ UNCHANGED <<config_file, lock, ctor, outcome, sensor,
                   gpio_ready, gpio_released, relay, config, current_moisture,
                   shutdown_flag, now, handlers, monitor, sd,
                   moisture_readings, watering_events, calls, soil>>

----------------------------------------------------------------------------
(* Request handlers *)

\* New requests are served until shutdown() is called (the server has
\* returned from app.run by then); requests in flight run on.
Serving == ctor = "done" /\ sd.pc = "idle" /\ calls < MaxEnvEvents

\* bonsai_api_manual_toggle, enabled: lines 519-521 up to the call of start_pump
ToggleOnBegin(h) ==
    /\ Serving
    /\ handlers[h].pc = "idle"
    /\ manual_toggle_on' = TRUE
    /\ handlers' = [handlers EXCEPT ![h].pc = "on_start",
                        ![h].seconds = config.manual_max_runtime_seconds]
    /\ calls' = calls + 1
    /\ UNCHANGED <<config_file, lock, ctor, outcome, sensor,
                   gpio_ready, gpio_released, relay, config, current_moisture,
                   last_water_time, pump, shutdown_flag, pump_stop_requested,
                   now, workers, monitor, sd, moisture_readings,
                   watering_events, hist, soil>>

\* start_pump("manual", seconds) and the return of an accepted request
ToggleOnStart(h) ==
    /\ handlers[h].pc = "on_start"
    /\ IF StartPumpResult = "Pump started"
       THEN /\ Launchable
            /\ workers' = Spawn("manual", handlers[h].seconds)
            /\ hist' = SpawnHist(handlers[h].seconds)
            /\ handlers' = [handlers EXCEPT ![h] = IdleHandler]
       ELSE /\ handlers' = [handlers EXCEPT ![h].pc = "on_fail",
                                            ![h].message = StartPumpResult]
            /\ UNCHANGED <<workers, hist>>
    /\ UNCHANGED <<config_file, lock, ctor, outcome, sensor,
                   gpio_ready, gpio_released, relay, config, current_moisture,
                   last_water_time, manual_toggle_on, pump, shutdown_flag,
                   pump_stop_requested, now, monitor, sd, moisture_readings,
                   watering_events, calls, soil>>

\* lines 522-525: the rejected request clears the flag and answers 409
ToggleOnFail(h) ==
    /\ handlers[h].pc = "on_fail"
    /\ manual_toggle_on' = FALSE
    /\ handlers' = [handlers EXCEPT ![h] = IdleHandler]
    /\ UNCHANGED <<config_file, lock, ctor, outcome, sensor,
                   gpio_ready, gpio_released, relay, config, current_moisture,
                   last_water_time, pump, shutdown_flag, pump_stop_requested,
                   now, workers, monitor, sd, moisture_readings,
                   watering_events, calls, hist, soil>>

\* bonsai_api_manual_toggle, not enabled: line 528, stop_pump()
ToggleOffBegin(h) ==
    /\ Serving
    /\ handlers[h].pc = "idle"
    /\ pump_stop_requested' = StopPump(pump_stop_requested)
    /\ hist' = ToggleOffHist
    /\ handlers' = [handlers EXCEPT ![h].pc = "off_clear"]
    /\ calls' = calls + 1
    /\ UNCHANGED <<config_file, lock, ctor, outcome, sensor,
                   gpio_ready, gpio_released, relay, config, current_moisture,
                   last_water_time, manual_toggle_on, pump, shutdown_flag,
                   now, workers, monitor, sd, moisture_readings,
                   watering_events, soil>>

\* lines 529-531
ToggleOffClear(h) ==
    /\ handlers[h].pc = "off_clear"
    /\ manual_toggle_on' = FALSE
    /\ handlers' = [handlers EXCEPT ![h] = IdleHandler]
    /\ UNCHANGED <<config_file, lock, ctor, outcome, sensor,
                   gpio_ready, gpio_released, relay, config, current_moisture,
                   last_water_time, pump, shutdown_flag, pump_stop_requested,
                   now, workers, monitor, sd, moisture_readings,
                   watering_events, calls, hist, soil>>

\* bonsai_api_config taking every key of the payload.
MergeConfig_EveryKey(cfg, payload) ==
    [k \in DOMAIN cfg \cup DOMAIN payload |->
        IF k \in DOMAIN payload THEN payload[k] ELSE cfg[k]]

\* lines 497-500: for key, value in payload.items(): if key in allowed:
\* self.config[key] = value
MergeConfig(cfg, payload) ==
    [k \in DOMAIN cfg \cup (DOMAIN payload \cap allowed) |->
        IF k \in DOMAIN payload /\ k \in allowed THEN payload[k] ELSE cfg[k]]

\* No call on the configuration store has been made yet.
NoOutcome == [result |-> "", request |-> [op |-> "none"]]

\* _save_config: json.dump of the whole configuration into the file
SaveConfig(cfg) == [exists |-> TRUE, data |-> cfg]

\* lines 497-502: merge and save under the lock, then the answer
UpdateConfig(payload) ==
    /\ Serving
    /\ lock = 0
    /\ config' = MergeConfig(config, payload)
    /\ config' # config
    /\ config_file' = SaveConfig(config')
    /\ outcome' = [result |-> "ok",
                   request |-> [op |-> "config", payload |-> payload]]
    /\ calls' = calls + 1
    /\ UNCHANGED <<lock, ctor, sensor,
                   gpio_ready, gpio_released, relay, current_moisture,
                   last_water_time, manual_toggle_on, pump, shutdown_flag,
                   pump_stop_requested, now, workers, handlers, monitor, sd,
                   moisture_readings, watering_events, hist, soil>>

----------------------------------------------------------------------------
(* monitor_loop *)

\* lines 424-428: sleep_seconds naps of one second, each after a look at the
\* shutdown flag; `left` counts what remains of the sleep in poll intervals
SleepPolls(cfg) ==
    Max(MinSleepSeconds, cfg.sensor_read_interval_seconds) * PollsPerSecond

GoToSleep == RestingMonitor("wake", SleepPolls(monitor.cfg))

\* The monitor looking at the pump's stop signal instead of the shutdown flag.
ShutdownSeen_StopSignal == pump_stop_requested

\* lines 426 and 385: self._shutdown.is_set()
ShutdownSeen == shutdown_flag

\* lines 425-428 and line 385: within a nap the thread sleeps on; between two
\* naps, and after the last one, it looks at the shutdown flag
MonitorWake ==
    /\ monitor.pc = "wake"
    /\ monitor' =
          IF monitor.left % PollsPerSecond # 0 THEN [monitor EXCEPT !.pc = "sleep"]
          ELSE IF ShutdownSeen THEN RestingMonitor("done", 0)
          ELSE IF monitor.left > 0 THEN [monitor EXCEPT !.pc = "sleep"]
          ELSE RestingMonitor("snap", 0)
    /\ UNCHANGED <<config_file, lock, ctor, outcome, sensor,
                   gpio_ready, gpio_released, relay, config, current_moisture,
                   last_water_time, manual_toggle_on, pump, shutdown_flag,
                   pump_stop_requested, now, workers, handlers, sd,
                   moisture_readings, watering_events, calls, hist, soil>>

\* lines 386-387
MonitorSnap ==
    /\ monitor.pc = "snap"
    /\ monitor' = [monitor EXCEPT !.pc = "read", !.cfg = config]
    /\ UNCHANGED <<config_file, lock, ctor, outcome, sensor,
                   gpio_ready, gpio_released, relay, config, current_moisture,
                   last_water_time, manual_toggle_on, pump, shutdown_flag,
                   pump_stop_requested, now, workers, handlers, sd,
                   moisture_readings, watering_events, calls, hist, soil>>

\* The test of line 390 also asking for auto mode.
ReadingPresent_AutoOnly(moisture, cfg) ==
    moisture # None /\ cfg.auto_watering_enabled

\* line 390: if moisture is not None
ReadingPresent(moisture, cfg) == moisture # None

\* lines 389-394: the sensor answers a percentage or nothing
MonitorRead ==
    /\ monitor.pc = "read"
    /\ LET moisture == ReadMoisture IN
          /\ IF ReadingPresent(moisture, monitor.cfg)
             THEN /\ current_moisture' = moisture
                  /\ moisture_readings' = Append(moisture_readings, moisture)
             ELSE UNCHANGED <<current_moisture, moisture_readings>>
          /\ monitor' = [monitor EXCEPT !.pc = "status", !.moisture = moisture]
    /\ sensor' = SensorAfterRead
    /\ UNCHANGED <<config_file, lock, ctor, outcome,
                   gpio_ready, gpio_released, relay, config,
                   last_water_time, manual_toggle_on, pump, shutdown_flag,
                   pump_stop_requested, now, workers, handlers, sd,
                   watering_events, calls, soil, hist>>

\* The label with the wet test ahead of the dry test.
StatusLabel_WetFirst(m, cfg, pump_running) ==
    IF pump_running THEN "PUMP"
    ELSE IF m = None THEN "WAIT"
    ELSE IF m > cfg.moisture_threshold_high THEN "WET"
    ELSE IF m < cfg.moisture_threshold_low THEN "DRY"
    ELSE "OK"

\* lines 395-411: WAIT, then DRY / WET / OK from the thresholds of the
\* snapshot, then PUMP over all of them when a run is marked
StatusLabel(m, cfg, pump_running) ==
    IF pump_running THEN "PUMP"
    ELSE IF m = None THEN "WAIT"
    ELSE IF m < cfg.moisture_threshold_low THEN "DRY"
    ELSE IF m > cfg.moisture_threshold_high THEN "WET"
    ELSE "OK"

\* lines 396-413
MonitorStatus ==
    /\ monitor.pc = "status"
    /\ monitor' = [monitor EXCEPT
                      !.pc = "gate",
                      !.m = current_moisture,
                      !.status = StatusLabel(current_moisture, monitor.cfg,
                                             pump.running)]
    /\ UNCHANGED <<config_file, lock, ctor, outcome, sensor,
                   gpio_ready, gpio_released, relay, config, current_moisture,
                   last_water_time, manual_toggle_on, pump, shutdown_flag,
                   pump_stop_requested, now, workers, handlers, sd,
                   moisture_readings, watering_events, calls, hist, soil>>

\* The throttle comparing with > instead of >=.
IntervalOk_Strict(t, last, cfg) ==
    t - last > cfg.min_water_interval_seconds * PollsPerSecond

\* line 418
IntervalOk(t, last, cfg) ==
    t - last >= cfg.min_water_interval_seconds * PollsPerSecond

\* The gate without its look at auto mode.
GateOpen_IgnoresAutoMode ==
    /\ monitor.m # None
    /\ monitor.m < monitor.cfg.moisture_threshold_low
    /\ IntervalOk(now, last_water_time, monitor.cfg)
    /\ ~pump.running

\* lines 415-421
GateOpen ==
    /\ monitor.m # None
    /\ monitor.cfg.auto_watering_enabled
    /\ monitor.m < monitor.cfg.moisture_threshold_low
    /\ IntervalOk(now, last_water_time, monitor.cfg)
    /\ ~pump.running

MonitorGate ==
    /\ monitor.pc = "gate"
    /\ monitor' = IF GateOpen THEN [monitor EXCEPT !.pc = "start"]
                  ELSE GoToSleep
    /\ UNCHANGED <<config_file, lock, ctor, outcome, sensor,
                   gpio_ready, gpio_released, relay, config, current_moisture,
                   last_water_time, manual_toggle_on, pump, shutdown_flag,
                   pump_stop_requested, now, workers, handlers, sd,
                   moisture_readings, watering_events, calls, hist, soil>>

\* line 422: start_pump("auto", watering_duration_seconds); then the sleep
MonitorStart ==
    /\ monitor.pc = "start"
    /\ IF StartPumpResult = "Pump started"
       THEN /\ Launchable
            /\ workers' = Spawn("auto", monitor.cfg.watering_duration_seconds)
            /\ hist' = SpawnHist(MaxAllowed("auto", monitor.cfg))
       ELSE UNCHANGED <<workers, hist>>
    /\ monitor' = GoToSleep
    /\ UNCHANGED <<config_file, lock, ctor, outcome, sensor,
                   gpio_ready, gpio_released, relay, config, current_moisture,
                   last_water_time, manual_toggle_on, pump, shutdown_flag,
                   pump_stop_requested, now, handlers, sd,
                   moisture_readings, watering_events, calls, soil>>

----------------------------------------------------------------------------
(* shutdown *)

\* line 438
ShutdownBegin ==
    /\ sd.pc = "idle"
    /\ calls < MaxEnvEvents
    /\ shutdown_flag' = TRUE
    /\ sd' = [sd EXCEPT !.pc = "stop"]
    /\ calls' = calls + 1
    /\ UNCHANGED <<config_file, lock, ctor, outcome, sensor,
                   gpio_ready, gpio_released, relay, config, current_moisture,
                   last_water_time, manual_toggle_on, pump,
                   pump_stop_requested, now, workers, handlers, monitor,
                   moisture_readings, watering_events, hist, soil>>

\* lines 439-440
ShutdownStop ==
    /\ sd.pc = "stop"
    /\ pump_stop_requested' = StopPump(pump_stop_requested)
    /\ hist' = StopHist
    /\ sd' = [pc |-> "wait", left |-> ShutdownWaitPolls]
    /\ UNCHANGED <<config_file, lock, ctor, outcome, sensor,
                   gpio_ready, gpio_released, relay, config, current_moisture,
                   last_water_time, manual_toggle_on, pump, shutdown_flag,
                   now, workers, handlers, monitor,
                   moisture_readings, watering_events, calls, soil>>

\* lines 441-447: the forced off and GPIO.cleanup()
ShutdownOff ==
    /\ sd.pc = "off"
    /\ relay' = SetPumpOutput(FALSE)
    /\ hist' = NoteRelay(0, SetPumpOutput(FALSE))
    /\ gpio_released' = gpio_ready
    /\ sd' = [sd EXCEPT !.pc = "done"]
    /\ UNCHANGED <<config_file, lock, ctor, outcome, sensor,
                   gpio_ready, config, current_moisture,
                   last_water_time, manual_toggle_on, pump, shutdown_flag,
                   pump_stop_requested, now, workers, handlers, monitor,
                   moisture_readings, watering_events, calls, soil>>

----------------------------------------------------------------------------
(* Time *)

Asleep ==
    /\ \A h \in HandlerIds : handlers[h].pc = "idle"
    /\ \A w \in WorkerIds : workers[w].pc \in {"none", "sleep"}
    /\ monitor.pc \in {"sleep", "done", "crashed"}
    /\ sd.pc \in {"idle", "wait", "done"}

Tick ==
    /\ Asleep
    /\ now < BootTime + Horizon
    /\ now' = now + 1
    /\ soil' \in SensorAfter
    /\ calls' = IF soil' = soil THEN calls ELSE calls + 1
    /\ workers' = [w \in WorkerIds |->
                      IF workers[w].pc = "sleep"
                      THEN [workers[w] EXCEPT !.pc = "loop"] ELSE workers[w]]
    /\ monitor' = IF monitor.pc = "sleep"
                  THEN [monitor EXCEPT !.pc = "wake", !.left = @ - 1]
                  ELSE monitor
    /\ sd' = IF sd.pc = "wait"
             THEN (IF sd.left = 1 THEN [pc |-> "off", left |-> 0]
                   ELSE [sd EXCEPT !.left = @ - 1])
             ELSE sd
    /\ UNCHANGED <<config_file, lock, ctor, outcome, sensor,
                   gpio_ready, gpio_released, relay, config, current_moisture,
                   last_water_time, manual_toggle_on, pump, shutdown_flag,
                   pump_stop_requested, handlers,
                   moisture_readings, watering_events, hist>>

----------------------------------------------------------------------------
(* The state after construction, with the monitor thread started *)

Init ==
    /\ gpio_ready \in BOOLEAN
    /\ gpio_released = FALSE
    /\ relay = IF gpio_ready THEN PUMP_OFF_LEVEL ELSE None
    /\ config = LoadedConfig
    /\ config_file = [exists |-> TRUE, data |-> LoadedConfig]
    /\ lock = 0
    /\ ctor = "done"
    /\ outcome = NoOutcome
    /\ sensor = None
    /\ current_moisture = None
    /\ last_water_time = 0
    /\ manual_toggle_on = FALSE
    /\ pump = PumpState
    /\ shutdown_flag = FALSE
    /\ pump_stop_requested = FALSE
    /\ now = BootTime
    /\ workers = [w \in WorkerIds |-> NoWorker]
    /\ handlers = [h \in HandlerIds |-> IdleHandler]
    /\ monitor = RestingMonitor("snap", 0)
    /\ sd = [pc |-> "idle", left |-> 0]
    /\ moisture_readings = <<>>
    /\ watering_events = <<>>
    /\ calls = 0
    /\ soil \in Moistures \cup {None}
    /\ hist = [run |-> [w \in WorkerIds |-> NoHist],
               relay_by |-> 0, relay_since |-> 0, accepted |-> 0]

Next ==
    \/ \E h \in HandlerIds : ToggleOnBegin(h)
    \/ \E h \in HandlerIds : ToggleOnStart(h)
    \/ \E h \in HandlerIds : ToggleOnFail(h)
    \/ \E h \in HandlerIds : ToggleOffBegin(h)
    \/ \E h \in HandlerIds : ToggleOffClear(h)
    \/ \E payload \in ConfigPayloads : UpdateConfig(payload)
    \/ \E w \in WorkerIds : WorkerConfig(w)
    \/ \E w \in WorkerIds : WorkerMark(w)
    \/ \E w \in WorkerIds : WorkerOn(w)
    \/ \E w \in WorkerIds : WorkerLoop(w)
    \/ \E w \in WorkerIds : WorkerBody(w)
    \/ \E w \in WorkerIds : WorkerOff(w)
    \/ \E w \in WorkerIds : WorkerLog(w)
    \/ \E w \in WorkerIds : WorkerReset(w)
    \/ MonitorWake
    \/ MonitorSnap
    \/ MonitorRead
    \/ MonitorStatus
    \/ MonitorGate
    \/ MonitorStart
    \/ ShutdownBegin
    \/ ShutdownStop
    \/ ShutdownOff
    \/ Tick

Spec == Init /\ [][Next]_vars

----------------------------------------------------------------------------
(* The controller on hardware and storage that can fail: GPIO.output can
   raise when the worker energizes the relay, and the INSERT of
   _log_watering can raise.  Each failure is an event of the environment. *)

\* line 329, outside the try block: the exception ends the worker thread
EnergizeFails(w) ==
    /\ workers[w].pc = "w_on"
    /\ gpio_ready
    /\ calls < MaxEnvEvents
    /\ calls' = calls + 1
    /\ workers' = [workers EXCEPT ![w] = NoWorker]
    /\ hist' = EndHist(hist, w)
    /\ UNCHANGED <<config_file, lock, ctor, outcome, sensor,
                   gpio_ready, gpio_released, relay, config, current_moisture,
                   last_water_time, manual_toggle_on, pump, shutdown_flag,
                   pump_stop_requested, now, handlers, monitor, sd,
                   moisture_readings, watering_events, soil>>

\* line 348, inside the finally block: the exception leaves the block before
\* the reset of lines 350-359 and ends the worker thread
AppendFails(w) ==
    /\ workers[w].pc = "t_log"
    /\ calls < MaxEnvEvents
    /\ calls' = calls + 1
    /\ sensor' = SensorAfterRead
    /\ workers' = [workers EXCEPT ![w] = NoWorker]
    /\ hist' = EndHist(hist, w)
    /\ UNCHANGED <<config_file, lock, ctor, outcome,
                   gpio_ready, gpio_released, relay, config, current_moisture,
                   last_water_time, manual_toggle_on, pump, shutdown_flag,
                   pump_stop_requested, now, handlers, monitor, sd,
                   moisture_readings, watering_events, soil>>

\* lines 389-393 with _log_moisture raising (sqlite3.connect, INSERT or commit
\* fails): the cache is already written, the exception leaves monitor_loop,
\* which has no handler, and the thread ends.
MoistureAppendFails ==
    /\ monitor.pc = "read"
    /\ ReadingPresent(ReadMoisture, monitor.cfg)
    /\ calls < MaxEnvEvents
    /\ calls' = calls + 1
    /\ current_moisture' = ReadMoisture
    /\ sensor' = SensorAfterRead
    /\ monitor' = RestingMonitor("crashed", 0)
    /\ UNCHANGED <<config_file, lock, ctor, outcome,
                   gpio_ready, gpio_released, relay, config,
                   last_water_time, manual_toggle_on, pump, shutdown_flag,
                   pump_stop_requested, now, workers, handlers, sd,
                   moisture_readings, watering_events, soil, hist>>

NextFaults ==
    \/ Next
    \/ \E w \in WorkerIds : EnergizeFails(w)
    \/ \E w \in WorkerIds : AppendFails(w)
    \/ MoistureAppendFails

SpecFaults == Init /\ [][NextFaults]_vars

----------------------------------------------------------------------------
(* The controller with the read side of the event log: the two routes that
   list recent rows, called at any moment of the controller's life. *)

\* Request parameters of the two routes in this model.
HoursAsked == {0, 48}
CountsAsked == {1, 20}

Reverse(seq) == [i \in 1..Len(seq) |-> seq[Len(seq) + 1 - i]]

\* get_recent_readings: SELECT ... WHERE timestamp > cutoff ORDER BY
\* timestamp.  Every row of the model is younger than 48 hours and none is
\* younger than the present moment.
RecentReadings(hours) ==
    IF hours > 0 THEN moisture_readings ELSE <<>>

\* get_recent_waterings: SELECT ... ORDER BY timestamp DESC LIMIT count
RecentWaterings(count) ==
    SubSeq(Reverse(watering_events), 1, Min(count, Len(watering_events)))

\* bonsai_api_readings
ReadReadings(hours) ==
    /\ Serving
    /\ outcome' = [result |-> "rows",
                   request |-> [op |-> "readings", hours |-> hours],
                   rows |-> RecentReadings(hours)]
    /\ calls' = calls + 1
    /\ UNCHANGED <<config_file, lock, ctor, sensor,
                   gpio_ready, gpio_released, relay, config, current_moisture,
                   last_water_time, manual_toggle_on, pump, shutdown_flag,
                   pump_stop_requested, now, workers, handlers, monitor, sd,
                   moisture_readings, watering_events, soil, hist>>

\* bonsai_api_waterings
ReadWaterings(count) ==
    /\ Serving
    /\ outcome' = [result |-> "rows",
                   request |-> [op |-> "waterings", count |-> count],
                   rows |-> RecentWaterings(count)]
    /\ calls' = calls + 1
    /\ UNCHANGED <<config_file, lock, ctor, sensor,
                   gpio_ready, gpio_released, relay, config, current_moisture,
                   last_water_time, manual_toggle_on, pump, shutdown_flag,
                   pump_stop_requested, now, workers, handlers, monitor, sd,
                   moisture_readings, watering_events, soil, hist>>

NextLog ==
    \/ Next
    \/ \E hours \in HoursAsked : ReadReadings(hours)
    \/ \E count \in CountsAsked : ReadWaterings(count)

SpecLog == Init /\ [][NextLog]_vars

----------------------------------------------------------------------------
(* The controller with its threads scheduled and time passing: every thread
   that can take a step eventually takes one, and the clock keeps running
   after shutdown() has been called for as long as shutdown() itself
   sleeps.  The calls of the environment (requests, shutdown, the soil)
   stay free. *)

\* Time passing past the horizon of the requests, once shutdown() is under
\* way: the naps of lines 343, 428 and 440 end
Drain ==
    /\ shutdown_flag
    /\ Asleep
    /\ now >= BootTime + Horizon
    /\ now < BootTime + Horizon + Max(ShutdownWaitPolls, PollsPerSecond)
    /\ now' = now + 1
    /\ workers' = [w \in WorkerIds |->
                      IF workers[w].pc = "sleep"
                      THEN [workers[w] EXCEPT !.pc = "loop"] ELSE workers[w]]
    /\ monitor' = IF monitor.pc = "sleep"
                  THEN [monitor EXCEPT !.pc = "wake", !.left = @ - 1]
                  ELSE monitor
    /\ sd' = IF sd.pc = "wait"
             THEN (IF sd.left = 1 THEN [pc |-> "off", left |-> 0]
                   ELSE [sd EXCEPT !.left = @ - 1])
             ELSE sd
    /\ UNCHANGED <<config_file, lock, ctor, outcome, sensor,
                   gpio_ready, gpio_released, relay, config, current_moisture,
                   last_water_time, manual_toggle_on, pump, shutdown_flag,
                   pump_stop_requested, handlers,
                   moisture_readings, watering_events, calls, hist, soil>>

\* The steps of a _pump_worker thread
WorkerStep ==
    \E w \in WorkerIds :
        \/ WorkerConfig(w) \/ WorkerMark(w) \/ WorkerOn(w) \/ WorkerLoop(w)
        \/ WorkerBody(w) \/ WorkerOff(w) \/ WorkerLog(w) \/ WorkerReset(w)

\* The steps of the monitor thread
MonitorStep ==
    \/ MonitorWake \/ MonitorSnap \/ MonitorRead
    \/ MonitorStatus \/ MonitorGate \/ MonitorStart

\* The steps of a request handler after its request has arrived
HandlerStep ==
    \E h \in HandlerIds :
        ToggleOnStart(h) \/ ToggleOnFail(h) \/ ToggleOffClear(h)

\* The steps of shutdown() after its first line
ShutdownStep == ShutdownStop \/ ShutdownOff

NextLive ==
    \/ Next
    \/ Drain

SpecLive ==
    /\ Init
    /\ [][NextLive]_vars
    /\ WF_vars(WorkerStep)
    /\ WF_vars(MonitorStep)
    /\ WF_vars(HandlerStep)
    /\ WF_vars(ShutdownStep)
    /\ WF_vars(Tick \/ Drain)

----------------------------------------------------------------------------
(* The configuration store on its own: the constructor's load and save over
   the files below, then the three operations that write the configuration,
   each with a save that succeeds and with a save that fails. *)

DEFAULT_CONFIG ==
    [ moisture_threshold_low       |-> 35,
      moisture_threshold_high      |-> 65,
      watering_duration_seconds    |-> 60,
      min_water_interval_seconds   |-> 28800,
      sensor_read_interval_seconds |-> 300,
      pump_max_runtime_seconds     |-> 120,
      manual_max_runtime_seconds   |-> 30,
      auto_watering_enabled        |-> TRUE,
      oled_enabled                 |-> TRUE ]

\* os.path.exists(self.config_file) is false.
NoFile == [exists |-> FALSE, data |-> [oled_enabled |-> TRUE]]

\* What bonsai_config.json can hold when the constructor runs: nothing, a
\* few overrides, every key, and overrides with a key that is no tunable.
PersistedFiles ==
    { NoFile,
      [exists |-> TRUE, data |-> [moisture_threshold_low |-> 40]],
      [exists |-> TRUE, data |-> [watering_duration_seconds |-> 1,
                                  pump_max_runtime_seconds |-> 2,
                                  auto_watering_enabled |-> FALSE]],
      [exists |-> TRUE, data |-> LoadedConfig],
      [exists |-> TRUE, data |-> [oled_enabled |-> FALSE,
                                  ha_enabled |-> TRUE]] }

\* _load_config, lines 83-90: merged = DEFAULT_CONFIG.copy();
\* merged.update(saved)
LoadConfig(file) ==
    IF file.exists
    THEN [k \in DOMAIN DEFAULT_CONFIG \cup DOMAIN file.data |->
             IF k \in DOMAIN file.data THEN file.data[k]
             ELSE DEFAULT_CONFIG[k]]
    ELSE DEFAULT_CONFIG

\* open(self.config_file, "w") has truncated the file and json.dump has not
\* completed.
PartialFile == [exists |-> TRUE, data |-> [partial |-> TRUE]]

\* What the file holds after a _save_config that raised: open() failed and
\* the file is what it was, or the write broke off.
FileAfterFailedSave == {config_file, PartialFile}

\* `with self.lock:` left by an exception keeping the lock.
ReleasedOnRaise_Kept == IF lock = 0 THEN 1 ELSE lock

\* `with self.lock:` left by an exception: __exit__ releases the lock.
ReleasedOnRaise == 0

\* line 61: self.config = self._load_config()
CtorLoad ==
    /\ ctor = "load"
    /\ config' = LoadConfig(config_file)
    /\ ctor' = "save"
    /\ UNCHANGED <<config_file, lock, outcome, sensor,
                   gpio_ready, gpio_released, relay, current_moisture,
                   last_water_time, manual_toggle_on, pump, shutdown_flag,
                   pump_stop_requested, now, workers, handlers, monitor, sd,
                   moisture_readings, watering_events, calls, soil, hist>>

\* line 62: self._save_config(self.config)
CtorSave ==
    /\ ctor = "save"
    /\ config_file' = SaveConfig(config)
    /\ ctor' = "done"
    /\ UNCHANGED <<lock, outcome, sensor,
                   gpio_ready, gpio_released, relay, config, current_moisture,
                   last_water_time, manual_toggle_on, pump, shutdown_flag,
                   pump_stop_requested, now, workers, handlers, monitor, sd,
                   moisture_readings, watering_events, calls, soil, hist>>

\* The three operations' change of self.config, made under the lock before
\* the save: lines 498-500, line 509, line 295.
Requests ==
    [op : {"config"}, payload : ConfigPayloads]
        \cup [op : {"auto_mode", "oled"}, enabled : BOOLEAN]

Mutated(cfg, request) ==
    IF request.op = "config" THEN MergeConfig(cfg, request.payload)
    ELSE IF request.op = "auto_mode"
    THEN [cfg EXCEPT !.auto_watering_enabled = request.enabled]
    ELSE [cfg EXCEPT !.oled_enabled = request.enabled]

\* bonsai_api_config, bonsai_api_auto_mode, set_oled_enabled: the save
\* succeeds
StoreWrite(request) ==
    /\ Serving
    /\ lock = 0
    /\ config' = Mutated(config, request)
    /\ config_file' = SaveConfig(config')
    /\ outcome' = [result |-> "ok", request |-> request]
    /\ calls' = calls + 1
    /\ UNCHANGED <<lock, ctor, sensor,
                   gpio_ready, gpio_released, relay, current_moisture,
                   last_water_time, manual_toggle_on, pump, shutdown_flag,
                   pump_stop_requested, now, workers, handlers, monitor, sd,
                   moisture_readings, watering_events, soil, hist>>

\* the same, _save_config raising OSError: the exception leaves the `with`
\* block and the function
StoreWriteFails(request) ==
    /\ Serving
    /\ lock = 0
    /\ config' = Mutated(config, request)
    /\ config_file' \in FileAfterFailedSave
    /\ lock' = ReleasedOnRaise
    /\ outcome' = [result |-> "OSError", request |-> request]
    /\ calls' = calls + 1
    /\ UNCHANGED <<ctor, sensor,
                   gpio_ready, gpio_released, relay, current_moisture,
                   last_water_time, manual_toggle_on, pump, shutdown_flag,
                   pump_stop_requested, now, workers, handlers, monitor, sd,
                   moisture_readings, watering_events, soil, hist>>

InitStore ==
    /\ gpio_ready = TRUE
    /\ gpio_released = FALSE
    /\ relay = PUMP_OFF_LEVEL
    /\ config = DEFAULT_CONFIG
    /\ config_file \in PersistedFiles
    /\ lock = 0
    /\ ctor = "load"
    /\ outcome = NoOutcome
    /\ sensor = None
    /\ current_moisture = None
    /\ last_water_time = 0
    /\ manual_toggle_on = FALSE
    /\ pump = PumpState
    /\ shutdown_flag = FALSE
    /\ pump_stop_requested = FALSE
    /\ now = BootTime
    /\ workers = [w \in WorkerIds |-> NoWorker]
    /\ handlers = [h \in HandlerIds |-> IdleHandler]
    /\ monitor = RestingMonitor("snap", 0)
    /\ sd = [pc |-> "idle", left |-> 0]
    /\ moisture_readings = <<>>
    /\ watering_events = <<>>
    /\ calls = 0
    /\ soil = None
    /\ hist = [run |-> [w \in WorkerIds |-> NoHist],
               relay_by |-> 0, relay_since |-> 0, accepted |-> 0]

NextStore ==
    \/ CtorLoad
    \/ CtorSave
    \/ \E request \in Requests : StoreWrite(request)
    \/ \E request \in Requests : StoreWriteFails(request)

SpecStore == InitStore /\ [][NextStore]_vars

----------------------------------------------------------------------------
(* The clamp of _pump_worker on its own: one accepted start, with every
   requested duration and every pair of caps of the ranges below in force
   when the worker reads them. *)

Durations == (0 - MaxSeconds) .. (MaxSeconds + 1)
Caps == (0 - 1) .. MaxSeconds

InitClamp ==
    /\ gpio_ready = TRUE
    /\ gpio_released = FALSE
    /\ relay = PUMP_OFF_LEVEL
    /\ \E a \in Caps, m \in Caps :
          config = [LoadedConfig EXCEPT !.pump_max_runtime_seconds = a,
                                        !.manual_max_runtime_seconds = m]
    /\ config_file = [exists |-> TRUE, data |-> config]
    /\ lock = 0
    /\ ctor = "done"
    /\ outcome = NoOutcome
    /\ sensor = None
    /\ current_moisture = None
    /\ last_water_time = 0
    /\ manual_toggle_on = FALSE
    /\ pump = PumpState
    /\ shutdown_flag = FALSE
    /\ pump_stop_requested = FALSE
    /\ now = BootTime
    /\ \E mode \in Modes, seconds \in Durations :
          workers = [w \in WorkerIds |->
                        IF w = 1
                        THEN [NoWorker EXCEPT !.pc = "w_cfg", !.mode = mode,
                                              !.requested_seconds = seconds]
                        ELSE NoWorker]
    /\ handlers = [h \in HandlerIds |-> IdleHandler]
    /\ monitor = RestingMonitor("done", 0)
    /\ sd = [pc |-> "idle", left |-> 0]
    /\ moisture_readings = <<>>
    /\ watering_events = <<>>
    /\ calls = 0
    /\ soil = None
    /\ hist = [run |-> [w \in WorkerIds |-> NoHist],
               relay_by |-> 0, relay_since |-> 0, accepted |-> 0]

NextClamp == \E w \in WorkerIds : WorkerConfig(w)

SpecClamp == InitClamp /\ [][NextClamp]_vars

----------------------------------------------------------------------------
(* The status label of a monitor cycle on its own: the cycle has read the
   sensor and is about to derive its label, for every cached moisture and
   every pair of thresholds of the ranges below (the config route stores
   any pair, ordered or not), with and without a run marked. *)

Thresholds == {35, 50, 65}
CachedMoistures == {None, 20, 35, 50, 65, 80}

\* self.pump while a run of one second started at BootTime is in its loop
RunningPump ==
    [running |-> TRUE, mode |-> "manual", started_at |-> BootTime,
     ends_at |-> BootTime + PollsPerSecond, stop_reason |-> ""]

InitStatus ==
    /\ gpio_ready = TRUE
    /\ gpio_released = FALSE
    /\ \E low \in Thresholds, high \in Thresholds :
          config = [LoadedConfig EXCEPT !.moisture_threshold_low = low,
                                        !.moisture_threshold_high = high]
    /\ config_file = [exists |-> TRUE, data |-> config]
    /\ lock = 0
    /\ ctor = "done"
    /\ outcome = NoOutcome
    /\ current_moisture \in CachedMoistures
    /\ soil = current_moisture
    /\ sensor = IF soil = None THEN None ELSE BootTime
    /\ moisture_readings =
          IF current_moisture = None THEN <<>> ELSE <<current_moisture>>
    /\ last_water_time = 0
    /\ pump \in {PumpState, RunningPump}
    /\ manual_toggle_on = pump.running
    /\ relay = IF pump.running THEN PUMP_ON_LEVEL ELSE PUMP_OFF_LEVEL
    /\ shutdown_flag = FALSE
    /\ pump_stop_requested = FALSE
    /\ now = BootTime
    /\ workers = [w \in WorkerIds |->
                     IF w = 1 /\ pump.running
                     THEN [NoWorker EXCEPT !.pc = "body", !.mode = "manual",
                                           !.requested_seconds = 1,
                                           !.max_allowed = 2,
                                           !.run_seconds = 1,
                                           !.started = BootTime,
                                           !.stop_reason = InitialStopReason]
                     ELSE NoWorker]
    /\ handlers = [h \in HandlerIds |-> IdleHandler]
    /\ monitor = [RestingMonitor("status", 0) EXCEPT
                      !.cfg = config, !.moisture = current_moisture]
    /\ sd = [pc |-> "idle", left |-> 0]
    /\ watering_events = <<>>
    /\ calls = IF pump.running THEN 1 ELSE 0
    /\ hist = [run |-> [w \in WorkerIds |->
                           IF w = 1 /\ pump.running
                           THEN [NoHist EXCEPT !.cap = 2] ELSE NoHist],
               relay_by |-> IF pump.running THEN 1 ELSE 0,
               relay_since |-> IF pump.running THEN BootTime ELSE 0,
               accepted |-> IF pump.running THEN 1 ELSE 0]

NextStatus == MonitorStatus

SpecStatus == InitStatus /\ [][NextStatus]_vars

----------------------------------------------------------------------------
(* Properties *)

\* C1: at most one pump run is in progress at any time: from the moment a
\* start is accepted until that run's teardown has reset the pump state, no
\* other start (manual toggle or monitor) is accepted, so no two worker
\* threads exist together.
C1_OneRunAtATime == Cardinality(Live) <= 1

\* C2 as stated: while the relay is on, it has been on for no longer than the
\* cap of the mode of the run that switched it on, plus one poll interval.
C2_RelayOnWithinCap ==
    relay = PUMP_ON_LEVEL =>
        /\ hist.relay_by \in Live
        /\ now - hist.relay_since <=
              workers[hist.relay_by].max_allowed * PollsPerSecond + 1

\* C2, amended: the bound is the cap the run read when it started, or one
\* second when that cap is smaller; and a run still polling has not slept
\* past that bound, so a run nobody stops leaves its loop at the bound.
C2_RelayOnWithinFlooredCap ==
    /\ relay = PUMP_ON_LEVEL =>
          /\ hist.relay_by \in Live
          /\ now - hist.relay_since <=
                Max(1, workers[hist.relay_by].max_allowed) * PollsPerSecond + 1
    /\ \A w \in WorkerIds :
          /\ workers[w].pc \in {"loop", "body"} =>
                now - workers[w].started <=
                    Max(1, workers[w].max_allowed) * PollsPerSecond
          /\ workers[w].pc = "sleep" =>
                now - workers[w].started <
                    Max(1, workers[w].max_allowed) * PollsPerSecond
          /\ workers[w].pc \in {"t_log", "t_reset"} => hist.run[w].off

\* A manual run that nobody stopped has reached its cap and is about to
\* switch the relay off.
C2_Witness ==
    \E w \in WorkerIds :
        /\ workers[w].pc = "t_off"
        /\ workers[w].mode = "manual"
        /\ workers[w].stop_reason = "safety_timeout"
        /\ hist.run[w].stops = 0
        /\ relay = PUMP_ON_LEVEL
        /\ hist.relay_by = w
        /\ workers[w].max_allowed >= 1
        /\ now - hist.relay_since = workers[w].max_allowed * PollsPerSecond

\* C3: whatever ended the loop, the run's teardown has written the off level
\* to the relay pin before the run's watering event is appended (and before
\* the pump state is reset).
C3_OffBeforeEvent ==
    \A w \in WorkerIds :
        workers[w].pc \in {"t_log", "t_reset"} => hist.run[w].off

\* A run ended by the shutdown flag is about to append its event with the
\* relay off.
C3_Witness ==
    \E w \in WorkerIds :
        /\ workers[w].pc = "t_log"
        /\ shutdown_flag
        /\ workers[w].stop_reason = "completed"
        /\ relay = PUMP_OFF_LEVEL
        /\ hist.run[w].off

\* C4: fail closed.  When the actuator did not initialize, no worker is ever
\* launched, the pump state stays idle, the relay pin is never written, no
\* watering event is appended, and a start that has been answered was
\* rejected with the hardware-unavailable message.
C4_FailClosed ==
    ~gpio_ready =>
        /\ Live = {}
        /\ pump = PumpState
        /\ relay = None
        /\ hist.relay_by = 0
        /\ watering_events = <<>>
        /\ \A h \in HandlerIds :
              handlers[h].pc \in {"idle", "on_start", "on_fail", "off_clear"}
        /\ \A h \in HandlerIds :
              handlers[h].pc = "on_fail" =>
                  handlers[h].message = "GPIO not ready; pump control unavailable."

\* A manual start has been rejected on a hub whose actuator did not initialize.
C4_Witness ==
    /\ ~gpio_ready
    /\ \E h \in HandlerIds :
          /\ handlers[h].pc = "on_fail"
          /\ handlers[h].message = "GPIO not ready; pump control unavailable."
    /\ now > BootTime

\* C5 as stated: the effective run length lies between one second and the
\* cap of the run's mode.
C5_ClampWithinCap ==
    \A w \in WorkerIds :
        workers[w].pc = "w_mark" =>
            /\ 1 <= workers[w].run_seconds
            /\ workers[w].run_seconds <= MaxAllowed(workers[w].mode, config)

\* C5, amended: the effective run length lies between one second and the cap
\* of the run's mode, or is one second when that cap is smaller than one.
C5_ClampWithinFlooredCap ==
    \A w \in WorkerIds :
        workers[w].pc = "w_mark" =>
            /\ 1 <= workers[w].run_seconds
            /\ workers[w].run_seconds <=
                  Max(1, MaxAllowed(workers[w].mode, config))

\* A manual request longer than the manual cap, with a different auto cap,
\* has been cut to the manual cap.
C5_Witness ==
    \E w \in WorkerIds :
        /\ workers[w].pc = "w_mark"
        /\ workers[w].mode = "manual"
        /\ config.manual_max_runtime_seconds >= 2
        /\ config.pump_max_runtime_seconds < config.manual_max_runtime_seconds
        /\ workers[w].requested_seconds > config.manual_max_runtime_seconds
        /\ workers[w].run_seconds = config.manual_max_runtime_seconds

\* The run of worker w has left its polling loop and is in its teardown.
InTeardown(w) == workers[w].pc \in {"t_off", "t_log", "t_reset"}

\* No stop signal was raised for the run of worker w: none was pending when
\* the run was accepted and stop_pump was not called while it was in progress.
NeverSignalled(w) == hist.run[w].stops = 0 /\ ~hist.run[w].stale

\* C6: a run that ends when its elapsed time has reached run_seconds, no stop
\* signal having been raised, ends with safety_timeout when manual and with
\* completed when auto, and the event it appends carries that reason.
C6_DeadlineReason ==
    \A w \in WorkerIds :
        (InTeardown(w) /\ NeverSignalled(w) /\ now >= Deadline(w)) =>
            /\ workers[w].stop_reason =
                  (IF workers[w].mode = "manual" THEN "safety_timeout"
                   ELSE "completed")
            /\ workers[w].pc = "t_reset" =>
                  \E i \in 1..Len(watering_events) :
                      /\ watering_events[i].mode = workers[w].mode
                      /\ watering_events[i].stop_reason = workers[w].stop_reason

\* C7: a run for which stop_pump was called after it was accepted and before
\* its deadline ends with manual_stop, and is not polling any more one poll
\* interval after the call.
C7_StopEndsRun ==
    \A w \in WorkerIds :
        hist.run[w].early_at # 0 =>
            /\ InTeardown(w) => workers[w].stop_reason = "manual_stop"
            /\ ~InTeardown(w) => now <= hist.run[w].early_at + 1

\* C8: a stop_pump call made while no run is active does not end the next
\* run: a run ends with manual_stop only when stop_pump was called while that
\* run was in progress.
C8_NoStaleStop ==
    \A w \in WorkerIds :
        (InTeardown(w) /\ workers[w].stop_reason = "manual_stop") =>
            hist.run[w].stops >= 1

\* A step in which a thread calls stop_pump: the manual-toggle handler with
\* enabled = false, or shutdown().
StopPumpCalled ==
    \/ \E h \in HandlerIds :
          handlers[h].pc = "idle" /\ handlers'[h].pc = "off_clear"
    \/ sd.pc = "stop" /\ sd'.pc = "wait"

\* C9: stop_pump is idempotent.  A call made while the stop signal is already
\* raised changes nothing: the signal stays raised, and the pump state, the
\* workers, the relay, the event log and every other field of the controller
\* are what they were, so the run ends as it would have after the first call.
C9_StopIdempotent ==
    [][(StopPumpCalled /\ pump_stop_requested) =>
          /\ pump_stop_requested'
          /\ UNCHANGED <<config_file, lock, ctor, outcome, sensor,
                         gpio_ready, gpio_released, relay, config,
                         current_moisture, last_water_time, manual_toggle_on,
                         pump, shutdown_flag, now, workers, monitor,
                         moisture_readings, watering_events, soil>>]_vars

\* stop_pump was called twice during one run, which has since ended with
\* manual_stop and appended the only watering event.
C9_Witness ==
    \E w \in WorkerIds :
        /\ workers[w].pc = "t_reset"
        /\ hist.run[w].stops = 2
        /\ workers[w].stop_reason = "manual_stop"
        /\ Len(watering_events) = 1
        /\ watering_events[1].stop_reason = "manual_stop"

\* The monitor's start_pump("auto", ...) launches a worker in this step.
AutoRunStarts ==
    \E w \in WorkerIds :
        /\ workers[w].pc = "none"
        /\ workers'[w].pc = "w_cfg"
        /\ workers'[w].mode = "auto"

\* The monitor evaluates its gate in this step, at a time when its cycle has
\* a moisture below the low threshold, auto mode on and the pump idle.
GateEvaluatedDry ==
    /\ monitor.pc = "gate"
    /\ monitor'.pc # "gate"
    /\ monitor.m # None
    /\ monitor.m < monitor.cfg.moisture_threshold_low
    /\ monitor.cfg.auto_watering_enabled
    /\ ~pump.running

\* The interval of the throttle, in poll intervals.
ThrottlePolls == monitor.cfg.min_water_interval_seconds * PollsPerSecond

\* C10 as stated, on a hub whose actuator initialized: a gate evaluated
\* earlier than last_water_time + interval starts no automatic run; a gate
\* evaluated at or after it (pump idle, auto mode on, moisture below the low
\* threshold) leads to the start of one.
C10_ThrottleStartsRun ==
    [][/\ (GateEvaluatedDry /\ now - last_water_time < ThrottlePolls) =>
             monitor'.pc # "start"
       /\ (GateEvaluatedDry /\ now - last_water_time >= ThrottlePolls) =>
             monitor'.pc = "start"
       /\ AutoRunStarts => monitor.pc = "start"
       /\ (monitor.pc = "start" /\ monitor'.pc # "start" /\ gpio_ready) =>
             AutoRunStarts]_vars

\* C10, amended: a gate evaluated at or after last_water_time + interval
\* leads to a call of start_pump("auto", ...), which starts one run when the
\* actuator is initialized and no run has been marked running since the
\* gate's look at the pump state, and starts none otherwise.
C10_ThrottleCallsStart ==
    [][/\ (GateEvaluatedDry /\ now - last_water_time < ThrottlePolls) =>
             monitor'.pc # "start"
       /\ (GateEvaluatedDry /\ now - last_water_time >= ThrottlePolls) =>
             monitor'.pc = "start"
       /\ AutoRunStarts => monitor.pc = "start"
       /\ (monitor.pc = "start" /\ monitor'.pc # "start") =>
             (AutoRunStarts <=> (gpio_ready /\ ~pump.running))]_vars

\* After a run that ended at last_water_time, the gate has opened exactly one
\* interval later and the monitor is about to call start_pump.
C10_Witness ==
    /\ monitor.pc = "start"
    /\ last_water_time > 0
    /\ monitor.cfg.min_water_interval_seconds >= 1
    /\ now - last_water_time = ThrottlePolls
    /\ gpio_ready
    /\ ~pump.running

\* The monitor reads the sensor in this step.
SensorRead == monitor.pc = "read" /\ monitor'.pc = "status"

C12_StartOnlyThroughGate ==
    [][/\ (monitor.pc # "start" /\ monitor'.pc = "start") =>
             /\ monitor.pc = "gate"
             /\ monitor.cfg.auto_watering_enabled
             /\ monitor.m # None
             /\ monitor.m < monitor.cfg.moisture_threshold_low
             /\ now - last_water_time >= ThrottlePolls
             /\ ~pump.running
       /\ AutoRunStarts =>
             /\ monitor.pc = "start"
             /\ \A w \in WorkerIds :
                   (workers[w].pc = "none" /\ workers'[w].pc # "none") =>
                       workers'[w].requested_seconds =
                           monitor.cfg.watering_duration_seconds]_vars

\* The gate has let a cycle through and the monitor is about to call
\* start_pump, with a configuration changed since the process started.
C12_Witness ==
    /\ monitor.pc = "start"
    /\ monitor.cfg.auto_watering_enabled
    /\ monitor.cfg # LoadedConfig
    /\ monitor.m = 30
    /\ ~pump.running
    /\ last_water_time > 0

\* C13: in a monitor cycle in which the sensor answered nothing, the status
\* label is WAIT (PUMP when a run is active) and the cycle does not go on to
\* start an automatic run, whatever an earlier cycle left in the cache of the
\* current moisture.
C13_NoReadingNoRun ==
    (monitor.pc \in {"gate", "start"} /\ monitor.moisture = None) =>
        /\ monitor.status \in {"WAIT", "PUMP"}
        /\ monitor.pc # "start"

\* The accepted runs that have not appended their watering event yet.
NotYetLogged ==
    {w \in WorkerIds : workers[w].pc \notin {"none", "t_reset"}}

C15_TeardownGuaranteed ==
    /\ pump.running => Live # {}
    /\ relay = PUMP_ON_LEVEL => hist.relay_by \in Live

\* A manual run is active: accepted by start_pump and not yet reset.
ManualRunActive ==
    \E w \in WorkerIds : workers[w].pc # "none" /\ workers[w].mode = "manual"

\* C16: a manual-toggle enable that reaches start_pump while a manual run is
\* active is answered with the conflict, launches no worker, and the pump
\* state shows mode manual for as long as a manual run that has marked itself
\* running is active.
C16_SecondToggleRejected ==
    [][/\ \A h \in HandlerIds :
             (/\ handlers[h].pc = "on_start"
              /\ handlers'[h].pc # "on_start"
              /\ ManualRunActive) =>
                 /\ handlers'[h].pc = "on_fail"
                 /\ handlers'[h].message = "Pump already running"
                 /\ workers' = workers
       /\ \A w \in WorkerIds :
             (/\ workers[w].mode = "manual"
              /\ workers[w].pc \in {"w_on", "loop", "body", "sleep",
                                     "t_off", "t_log", "t_reset"}) =>
                 pump.mode = "manual"]_vars

\* C17: the watering event of an automatic run has mode auto and, as
\* moisture_before, the cached moisture at the moment start_pump accepted the
\* run: the moisture the triggering cycle decided on, which is the cycle's
\* own reading when the sensor answered in that cycle; and it has stop_reason
\* completed when the deadline was reached without a stop signal.
C17_AutoEventRecord ==
    [][\A w \in WorkerIds :
          /\ (AutoRunStarts /\ workers[w].pc = "none" /\ workers'[w].pc # "none") =>
                /\ workers'[w].moisture_before = current_moisture
                /\ workers'[w].moisture_before = monitor.m
                /\ monitor.moisture # None =>
                      workers'[w].moisture_before = monitor.moisture
          /\ (workers[w].pc # "none" /\ workers'[w].pc # "none") =>
                /\ workers'[w].moisture_before = workers[w].moisture_before
                /\ workers'[w].mode = workers[w].mode
          /\ (/\ workers[w].mode = "auto"
              /\ workers[w].pc = "t_log"
              /\ workers'[w].pc = "t_reset") =>
                /\ Len(watering_events') = Len(watering_events) + 1
                /\ LET event == watering_events'[Len(watering_events')] IN
                      /\ event.mode = "auto"
                      /\ event.moisture_before = workers[w].moisture_before
                      /\ (NeverSignalled(w) /\ now >= Deadline(w)) =>
                            event.stop_reason = "completed"]_vars

\* An automatic run triggered at a reading of 30 has reached its deadline
\* unsignalled and appended its event, while the cache has moved on.
C17_Witness ==
    \E w \in WorkerIds :
        /\ workers[w].pc = "t_reset"
        /\ workers[w].mode = "auto"
        /\ NeverSignalled(w)
        /\ now >= Deadline(w)
        /\ current_moisture # 30
        /\ Len(watering_events) >= 1
        /\ watering_events[Len(watering_events)] =
              [duration_seconds |-> now - workers[w].started,
               moisture_before |-> 30, moisture_after |-> soil,
               mode |-> "auto", stop_reason |-> "completed"]

\* The loop of worker w ends at the test of the shutdown flag (line 336), the
\* deadline not reached and no stop signal observed by the worker.
EndedByShutdown(w) ==
    /\ workers[w].pc = "loop"
    /\ workers'[w].pc = "t_off"
    /\ now < Deadline(w)

\* C18: a run the shutdown flag terminates before its deadline, no stop
\* signal observed, gets the terminal stop reason manual_stop, and the
\* teardown carries the run's reason into its watering event and into
\* pump.stop_reason.
C18_ShutdownReasonManualStop ==
    [][\A w \in WorkerIds :
          /\ EndedByShutdown(w) => workers'[w].stop_reason = "manual_stop"
          /\ (workers[w].pc = "t_log" /\ workers'[w].pc = "t_reset") =>
                watering_events'[Len(watering_events')].stop_reason =
                    workers[w].stop_reason
          /\ (workers[w].pc = "t_reset" /\ workers'[w].pc = "none") =>
                pump'.stop_reason = workers[w].stop_reason]_vars

\* C20: no watering event of a manual run has the stop reason completed.
C20_ManualNeverCompleted ==
    \A i \in 1..Len(watering_events) :
        watering_events[i].mode = "manual" =>
            watering_events[i].stop_reason \in {"safety_timeout", "manual_stop"}

\* C19: shutdown() does not raise in whatever state it is called: its forced
\* off is a no-op when the GPIO was never set up and the GPIO is not yet
\* released when it writes the pin; and once it has returned and every run
\* worker has finished the relay is not energized.
C19_ShutdownSafe ==
    /\ sd.pc \in {"stop", "wait", "off"} => ~SetPumpOutputRaises
    /\ (sd.pc = "done" /\ Live = {}) =>
          /\ relay # PUMP_ON_LEVEL
          /\ gpio_ready => relay = PUMP_OFF_LEVEL

\* shutdown() was called during a manual run, has returned, and the run's
\* worker, which the shutdown flag ended, has finished.
C19_Witness ==
    /\ sd.pc = "done"
    /\ Live = {}
    /\ gpio_ready
    /\ relay = PUMP_OFF_LEVEL
    /\ \E i \in 1..Len(watering_events) :
          /\ watering_events[i].mode = "manual"
          /\ watering_events[i].stop_reason = "completed"

\* C21: a step that changes the configuration is an update by one payload:
\* it adds no key, gives every recognized key of the payload the payload's
\* value, and leaves every other key, the unrecognized keys of the payload
\* among them, at its previous value.
C21_UpdateOnlyRecognized ==
    [][config' # config =>
          /\ DOMAIN config' = DOMAIN config
          /\ \A k \in DOMAIN config \ allowed : config'[k] = config[k]
          /\ \E payload \in ConfigPayloads :
                \A k \in DOMAIN config :
                    config'[k] = IF k \in DOMAIN payload /\ k \in allowed
                                 THEN payload[k] ELSE config[k]]_vars

\* The payload naming min_water_interval_seconds, oled_enabled and ha_enabled
\* has been merged.
C21_Witness ==
    /\ config.min_water_interval_seconds = 0
    /\ config.oled_enabled = TRUE
    /\ "ha_enabled" \notin DOMAIN config

\* C22: the configuration _load_config returns has the keys of the defaults
\* and no other; a key the persisted file holds has the file's value, and a
\* key it does not hold, or any key when there is no file, has its default.
C22_LoadIsDefaultsOverlaid ==
    ctor = "save" =>
        /\ DOMAIN config = DOMAIN DEFAULT_CONFIG
        /\ \A k \in DOMAIN config \cap DOMAIN DEFAULT_CONFIG :
              config[k] =
                  IF config_file.exists /\ k \in DOMAIN config_file.data
                  THEN config_file.data[k] ELSE DEFAULT_CONFIG[k]

\* A save has just failed in one of the three operations.
SaveFailed == outcome'.result = "OSError" /\ calls' = calls + 1

\* C23: when the save fails in updateConfig, setAutoMode or setOledEnabled
\* the caller gets the error, the configuration in memory has the values the
\* request gave it, and the lock is free; and while the last call's outcome
\* is that error a further write of the store can be made.
C23_SaveFailureSurfaced ==
    /\ [][SaveFailed =>
             /\ outcome'.request \in Requests
             /\ config' = Mutated(config, outcome'.request)
             /\ lock' = 0]_vars
    /\ []((outcome.result = "OSError" /\ Serving) =>
             ENABLED (\E request \in Requests : StoreWrite(request)))

\* The save of an auto_mode request has failed: memory has the new value,
\* the file still the old one, and the lock is free.
C23_Witness ==
    /\ outcome = [result |-> "OSError",
                  request |-> [op |-> "auto_mode", enabled |-> FALSE]]
    /\ config.auto_watering_enabled = FALSE
    /\ config_file.exists
    /\ config_file # PartialFile
    /\ config_file.data.auto_watering_enabled = TRUE
    /\ lock = 0

\* C24: the monitor thread ends only when shutdown has been requested: a
\* sensor read that fails, or an append of a moisture reading that fails,
\* does not end it.
C24_MonitorSurvivesFaults ==
    monitor.pc \in {"done", "crashed"} => shutdown_flag

\* C25: the configuration reads of one decision come from one snapshot: the
\* cap a run's worker reads is the cap of the configuration from which the
\* caller of start_pump took the run's requested duration, so the run's
\* length is computed from one state of the configuration.
C25_OneSnapshotPerDecision ==
    \A w \in WorkerIds :
        workers[w].pc \notin {"none", "w_cfg"} =>
            /\ workers[w].max_allowed = hist.run[w].cap
            /\ workers[w].run_seconds =
                  RunSeconds(workers[w].requested_seconds, hist.run[w].cap)

\* One of the two read routes has just answered: a request was served that
\* is no toggle, no configuration update and no call of shutdown, and its
\* answer is a list of rows.
RowsRead ==
    /\ calls' = calls + 1
    /\ outcome'.result = "rows"
    /\ handlers' = handlers
    /\ config' = config
    /\ sd' = sd
    /\ now' = now

GrowsAtEnd(old, new) ==
    /\ Len(new) \in {Len(old), Len(old) + 1}
    /\ \A i \in 1..Len(old) : new[i] = old[i]

\* C26: every step leaves the rows of the two tables as they are and at most
\* appends one row at the end of a table; and a step of getRecentReadings or
\* getRecentWaterings changes nothing of the controller or of the tables.
C26_LogAppendOnly ==
    [][/\ GrowsAtEnd(moisture_readings, moisture_readings')
       /\ GrowsAtEnd(watering_events, watering_events')
       /\ RowsRead =>
             UNCHANGED <<config_file, lock, ctor, sensor, gpio_ready,
                         gpio_released, relay, config, current_moisture,
                         last_water_time, manual_toggle_on, pump,
                         shutdown_flag, pump_stop_requested, now, workers,
                         handlers, monitor, sd, moisture_readings,
                         watering_events, soil>>]_vars

\* Two watering events are in the table and the route has listed the newer
\* one.
C26_Witness ==
    /\ Len(watering_events) = 2
    /\ Len(moisture_readings) >= 1
    /\ outcome.result = "rows"
    /\ outcome.request = [op |-> "waterings", count |-> 1]
    /\ outcome.rows = <<watering_events[2]>>

\* A call of _read_moisture returns: the monitor's read of line 389 or a
\* worker's moisture-after read of line 347.
GatewayRead ==
    \/ monitor.pc = "read" /\ monitor'.pc = "status"
    \/ \E w \in WorkerIds :
          workers[w].pc = "t_log" /\ workers'[w].pc = "t_reset"

\* C27: a read that fails returns None to a caller that goes on, and leaves
\* no cached handle, so that the next read opens a fresh one; a read that
\* succeeds on a cached handle leaves that same handle cached, and one that
\* succeeds without a cached handle caches the handle it has just opened;
\* nothing else touches the handle.
C27_SensorReconnect ==
    [][/\ (GatewayRead /\ ReadMoisture = None) => sensor' = None
       /\ (GatewayRead /\ ReadMoisture # None /\ sensor # None) =>
             sensor' = sensor
       /\ (GatewayRead /\ ReadMoisture # None /\ sensor = None) =>
             sensor' = now
       /\ (monitor.pc = "read" /\ monitor'.pc = "status") =>
             monitor'.moisture = ReadMoisture
       /\ ~GatewayRead => sensor' = sensor]_vars

\* The monitor has just read on a cached handle: one opened in an earlier
\* cycle than this one, after the first cycle's read had failed or its
\* handle had been discarded.
C27_Witness ==
    /\ monitor.pc = "status"
    /\ monitor.moisture # None
    /\ sensor # None
    /\ sensor > BootTime
    /\ sensor < now

\* C28: the teardown of a run is ordered: when the run's watering event is
\* appended its worker has already written the off level and pump.running is
\* still true; the reset comes after the append and sets the pump state to
\* idle, clears the stop signal and records last_water_time in one step.
C28_TeardownOrdered ==
    [][\A w \in WorkerIds :
          /\ (workers[w].pc = "t_log" /\ workers'[w].pc = "t_reset") =>
                /\ gpio_ready => hist.run[w].off
                /\ Len(watering_events') = Len(watering_events) + 1
                /\ pump.running /\ pump'.running
          /\ (workers[w].pc = "t_reset" /\ workers'[w].pc = "none") =>
                /\ w \notin NotYetLogged
                /\ watering_events' = watering_events
                /\ ~pump'.running /\ pump'.mode = "idle"
                /\ ~pump_stop_requested'
                /\ last_water_time' = now]_vars

\* Worker w takes a step of its teardown.
TeardownStep(w) == InTeardown(w) /\ workers'[w] # workers[w]

\* C29: runs do not overlap and their teardowns do not interleave: start_pump
\* accepts no run while a run is live, in particular none between a run's
\* exit from its loop and its reset, and no step of a run's teardown is taken
\* while the relay is energized by another run.
C29_NoOverlapNoInterleave ==
    [][/\ hist'.accepted # hist.accepted => Live = {}
       /\ \A w \in WorkerIds :
             TeardownStep(w) =>
                 ~(relay = PUMP_ON_LEVEL /\ hist.relay_by \in Live \ {w})]_vars

\* C30: from the moment start_pump has accepted a run until the run's
\* teardown, pump.running is true and pump.mode is the run's mode.
C30_AcceptedMeansRunning ==
    \A w \in WorkerIds :
        workers[w].pc \in {"w_cfg", "w_mark", "w_on", "loop", "body", "sleep"} =>
            pump.running /\ pump.mode = workers[w].mode

\* C31: each pass of the loop body tests the stop signal first and the
\* deadline second: with the signal raised the run ends with manual_stop,
\* also when the deadline has been reached at the same tick, in either mode;
\* with the signal down and the deadline reached it ends with the deadline's
\* reason; otherwise it sleeps.
C31_StopBeforeDeadline ==
    [][\A w \in WorkerIds :
          (workers[w].pc = "body" /\ workers'[w].pc # "body") =>
              /\ pump_stop_requested =>
                    /\ workers'[w].pc = "t_off"
                    /\ workers'[w].stop_reason = "manual_stop"
              /\ (~pump_stop_requested /\ now >= Deadline(w)) =>
                    /\ workers'[w].pc = "t_off"
                    /\ workers'[w].stop_reason =
                          DeadlineReason(workers[w].mode)
              /\ (~pump_stop_requested /\ now < Deadline(w)) =>
                    /\ workers'[w].pc = "sleep"
                    /\ workers'[w].stop_reason = workers[w].stop_reason]_vars

\* An automatic run has ended with manual_stop in a pass of the loop body made
\* when its deadline had been reached, the only stop_pump call of the run
\* having come at that tick and not before.
C31_Witness ==
    \E w \in WorkerIds :
        /\ workers[w].pc = "t_off"
        /\ workers[w].mode = "auto"
        /\ workers[w].stop_reason = "manual_stop"
        /\ now >= Deadline(w)
        /\ hist.run[w].stops = 1
        /\ hist.run[w].early_at = 0
        /\ ~hist.run[w].stale

\* The run of worker w, whose loop ended at the test of the shutdown flag,
\* appends its watering event.
LogsAfterShutdownExit(w) ==
    /\ hist.run[w].by_flag
    /\ workers[w].pc = "t_log"
    /\ workers'[w].pc = "t_reset"

----------------------------------------------------------------------------
----------------------------------------------------------------------------
\* The label a cycle has derived, by the cases of the thresholds taken in
\* order: PUMP when a run is marked, else WAIT without a moisture, else DRY
\* below low, else WET above high, else OK; below low is DRY also when the
\* pair is inverted.
LabelByCases ==
    LET m == monitor.m
        low == monitor.cfg.moisture_threshold_low
        high == monitor.cfg.moisture_threshold_high
        label == monitor.status
    IN  /\ pump.running => label = "PUMP"
        /\ ~pump.running /\ m = None => label = "WAIT"
        /\ ~pump.running /\ m # None /\ m < low => label = "DRY"
        /\ ~pump.running /\ m # None /\ m >= low /\ m > high => label = "WET"
        /\ ~pump.running /\ m # None /\ m >= low /\ m <= high => label = "OK"

\* C34 as stated: the label follows the cases above, and a moisture equal
\* to either threshold gives OK, whatever the pair.
C34_LabelEqualIsOk ==
    monitor.pc = "gate" =>
        /\ LabelByCases
        /\ (/\ ~pump.running
            /\ monitor.m # None
            /\ \/ monitor.m = monitor.cfg.moisture_threshold_low
               \/ monitor.m = monitor.cfg.moisture_threshold_high)
              => monitor.status = "OK"

\* C34: the label follows the cases above, and a moisture equal to either
\* threshold gives OK when the pair is ordered (low <= high).
C34_LabelFunction ==
    monitor.pc = "gate" =>
        /\ LabelByCases
        /\ (/\ ~pump.running
            /\ monitor.m # None
            /\ monitor.cfg.moisture_threshold_low
                  <= monitor.cfg.moisture_threshold_high
            /\ \/ monitor.m = monitor.cfg.moisture_threshold_low
               \/ monitor.m = monitor.cfg.moisture_threshold_high)
              => monitor.status = "OK"

\* A cycle has labelled DRY a moisture that lies below low and above high
\* of an inverted pair.
C34_Witness ==
    /\ monitor.pc = "gate"
    /\ ~pump.running
    /\ monitor.m # None
    /\ monitor.cfg.moisture_threshold_low > monitor.cfg.moisture_threshold_high
    /\ monitor.m < monitor.cfg.moisture_threshold_low
    /\ monitor.m > monitor.cfg.moisture_threshold_high
    /\ monitor.status = "DRY"

----------------------------------------------------------------------------
\* C35: the PumpRun record is consistent in every state: not running
\* exactly when its mode is idle, and then started_at = ends_at = 0;
\* running exactly when its mode is auto or manual, and then stop_reason is
\* empty and ends_at lies after started_at; and whenever a worker marks its
\* run, ends_at = started_at + run_seconds of that worker, started now.
C35_PumpRecordConsistent ==
    /\ [](/\ pump.running <=> pump.mode \in Modes
          /\ ~pump.running <=> pump.mode = "idle"
          /\ ~pump.running => pump.started_at = 0 /\ pump.ends_at = 0
          /\ pump.running =>
                /\ pump.stop_reason = ""
                /\ pump.started_at >= BootTime
                /\ pump.ends_at >= pump.started_at + PollsPerSecond)
    /\ [][pump'.running /\ pump' # pump =>
             \E w \in WorkerIds :
                /\ workers[w].pc = "w_mark"
                /\ workers'[w].pc = "w_on"
                /\ pump'.mode = workers[w].mode
                /\ pump'.started_at = now
                /\ pump'.ends_at =
                      pump'.started_at + workers[w].run_seconds * PollsPerSecond]_vars

\* The record is marked running after an earlier run has ended (its
\* stop_reason was overwritten by the mark), with a second run live and the
\* stop signal raised.
C35_Witness ==
    /\ pump.running
    /\ pump_stop_requested
    /\ Len(watering_events) >= 1
    /\ \A w \in WorkerIds : workers[w].pc # "none"

----------------------------------------------------------------------------
\* C36: in every state, a relay that is on implies that the PumpRun record
\* says running.
C36_OnImpliesRunning ==
    relay = PUMP_ON_LEVEL => pump.running

----------------------------------------------------------------------------
\* C37: while a manual run is active (accepted by start_pump, not yet reset)
\* and stop_pump has not been called during it, manual_toggle_on is true.
C37_ToggleStaysOn ==
    \A w \in WorkerIds :
        (/\ workers[w].pc # "none"
         /\ workers[w].mode = "manual"
         /\ hist.run[w].stops = 0)
            => manual_toggle_on

----------------------------------------------------------------------------
\* C38: an automatic run during which the manual-toggle route was called
\* with enabled = false, before the run's deadline, is not polling any more
\* one poll interval after the call, ends with manual_stop, and its
\* watering event has mode auto and stop_reason manual_stop.
C38_ToggleOffCancelsAuto ==
    \A w \in WorkerIds :
        (workers[w].mode = "auto" /\ hist.run[w].by_toggle) =>
            /\ InTeardown(w) => workers[w].stop_reason = "manual_stop"
            /\ ~InTeardown(w) => now <= hist.run[w].early_at + 1
            /\ workers[w].pc = "t_reset" =>
                  \E i \in 1..Len(watering_events) :
                      /\ watering_events[i].mode = "auto"
                      /\ watering_events[i].stop_reason = "manual_stop"

----------------------------------------------------------------------------
\* C39: the reset that ends a run, manual or automatic, sets last_water_time
\* to the time of the reset, and nothing else changes it; a gate evaluated
\* earlier than last_water_time + min_water_interval_seconds (of the cycle's
\* snapshot) does not go on to start_pump, whatever the moisture; and the
\* monitor starts an automatic run only from a gate that went on to it.
C39_ThrottleResetByEveryRun ==
    [][/\ \A w \in WorkerIds :
             (workers[w].pc = "t_reset" /\ workers'[w].pc = "none") =>
                 last_water_time' = now
       /\ last_water_time' # last_water_time =>
             \E w \in WorkerIds :
                 workers[w].pc = "t_reset" /\ workers'[w].pc = "none"
       /\ (/\ monitor.pc = "gate"
           /\ monitor'.pc # "gate"
           /\ now < last_water_time + ThrottlePolls) =>
             monitor'.pc # "start"
       /\ AutoRunStarts => monitor.pc = "start"]_vars

\* A manual run's teardown has completed at this tick, and the monitor is
\* at its gate with a dry moisture, auto mode on and the pump idle, earlier
\* than one interval after the teardown.
C39_Witness ==
    /\ monitor.pc = "gate"
    /\ monitor.m # None
    /\ monitor.m < monitor.cfg.moisture_threshold_low
    /\ monitor.cfg.auto_watering_enabled
    /\ ~pump.running
    /\ Live = {}
    /\ last_water_time > 0
    /\ now < last_water_time + ThrottlePolls
    /\ Len(watering_events) = 1
    /\ watering_events[1].mode = "manual"

----------------------------------------------------------------------------
\* C40: a run that start_pump accepted after the shutdown flag was set never
\* has the relay on and never appends a watering event.
C40_NoRunAfterShutdown ==
    \A w \in WorkerIds :
        hist.run[w].after_flag =>
            /\ ~(relay = PUMP_ON_LEVEL /\ hist.relay_by = w)
            /\ workers[w].pc # "t_reset"

====
